---------------------------- MODULE Spec2Model ----------------------------
(***************************************************************************)
(* A model of imapmover: the chunk planner (_chunk_messages), the folder   *)
(* filter (_folder_matcher), the folder name mapper (fix_path) and the     *)
(* synchronisation run (imap_sync / _imap_sync_core) against two IMAP      *)
(* servers.                                                                *)
(*                                                                         *)
(* The progress sink (set_description, reset, update, set_postfix_str) is  *)
(* not modelled: its calls change nothing the run reads.                   *)
(*                                                                         *)
(* Strings whose characters matter (folder paths, glob patterns,           *)
(* separators) are sequences of one-character strings: <<"a","/","b">>     *)
(* is the Python string 'a/b'.                                             *)
(***************************************************************************)
EXTENDS Integers, Sequences, FiniteSets, TLC

VARIABLES
    chunker,    \* the activation of _chunk_messages (mover.py 38-53)
    matcher,    \* the activation of _folder_matcher (cli.py 20-39)
    mapper,     \* the activation of the fix_path construction (mover.py 73-80)
    sync,       \* the activation of imap_sync (mover.py 161-186)
    core,       \* the locals of _imap_sync_core (mover.py 57-158)
    src,        \* the source server and the connection to it
    dest,       \* the destination server and the connection to it
    calls,      \* the protocol calls issued so far, in order
    obs         \* what an observer of the run has recorded (no program state)

vars == <<chunker, matcher, mapper, sync, core, src, dest, calls, obs>>

mainVars == <<sync, core, src, dest, calls, obs>>

\* The value of an activation record that is not running.
Idle == [pc |-> "idle"]

\* No synchronisation run is under way.
MainIdle ==
    /\ sync = Idle
    /\ core = Idle
    /\ src = Idle
    /\ dest = Idle
    /\ calls = <<>>
    /\ obs = Idle

---------------------------------------------------------------------------
(* Sequence helpers *)

Range(s) == {s[i] : i \in 1..Len(s)}

NoDup(s) == \A i, j \in 1..Len(s) : s[i] = s[j] => i = j

\* All sequences over S of length at most n.
SeqsUpTo(S, n) == UNION {[1..k -> S] : k \in 0..n}

RECURSIVE Flatten(_)
Flatten(ss) == IF ss = <<>> THEN <<>> ELSE Head(ss) \o Flatten(Tail(ss))

RECURSIVE SumSeq(_)
SumSeq(s) == IF s = <<>> THEN 0 ELSE Head(s) + SumSeq(Tail(s))

---------------------------------------------------------------------------
(* The chunk planner: _chunk_messages(messages, max_size), mover.py 38-53. *)
(* messages is the dict move_messages in insertion order: a sequence of    *)
(* [id, size] with distinct ids.                                           *)

\* Bounds of the chunk planner's inputs.
MaxChunkMsgs == 3
MaxMsgSize == 3
MaxChunkBytes == 4

\* A planner state is [chunk, chunk_total, yielded]: the two locals and the
\* chunks yielded so far.

\* A plausible slip: the overflow branch without its "if chunk" test, which
\* yields the (possibly empty) current chunk and keeps the message for later.
ChunkStepNoEmptyTest(st, msg, max_size) ==
    IF st.chunk_total + msg.size >= max_size
    THEN [chunk |-> <<msg.id>>, chunk_total |-> msg.size,
          yielded |-> Append(st.yielded, st.chunk)]
    ELSE [chunk |-> Append(st.chunk, msg.id),
          chunk_total |-> st.chunk_total + msg.size,
          yielded |-> st.yielded]

\* A plausible slip: the overflow test written with > where the code has >=,
\* which lets a chunk grow until its total equals max_size.
ChunkStepInclusive(st, msg, max_size) ==
    IF st.chunk_total + msg.size > max_size
    THEN IF st.chunk # <<>>
         THEN [chunk |-> <<msg.id>>, chunk_total |-> msg.size,
               yielded |-> Append(st.yielded, st.chunk)]
         ELSE [chunk |-> st.chunk, chunk_total |-> st.chunk_total,
               yielded |-> Append(st.yielded, <<msg.id>>)]
    ELSE [chunk |-> Append(st.chunk, msg.id),
          chunk_total |-> st.chunk_total + msg.size,
          yielded |-> st.yielded]

\* One iteration of the for loop, lines 41-51.
ChunkStep(st, msg, max_size) ==
    IF st.chunk_total + msg.size >= max_size
    THEN IF st.chunk # <<>>
         THEN [chunk |-> <<msg.id>>, chunk_total |-> msg.size,
               yielded |-> Append(st.yielded, st.chunk)]
         ELSE [chunk |-> st.chunk, chunk_total |-> st.chunk_total,
               yielded |-> Append(st.yielded, <<msg.id>>)]
    ELSE [chunk |-> Append(st.chunk, msg.id),
          chunk_total |-> st.chunk_total + msg.size,
          yielded |-> st.yielded]

\* A plausible slip: the generator without its trailing yield, which loses
\* the chunk being accumulated when the input ends.
ChunkFlushOmitted(st) == st

\* The trailing "if chunk: yield chunk", lines 52-53.
ChunkFlush(st) ==
    IF st.chunk # <<>>
    THEN [st EXCEPT !.yielded = Append(st.yielded, st.chunk)]
    ELSE st

ChunkStart == [chunk |-> <<>>, chunk_total |-> 0, yielded |-> <<>>]

RECURSIVE ChunkLoop(_, _, _)
ChunkLoop(st, messages, max_size) ==
    IF messages = <<>> THEN st
    ELSE ChunkLoop(ChunkStep(st, Head(messages), max_size), Tail(messages), max_size)

\* Every chunk the generator yields when run to exhaustion.
_chunk_messages(messages, max_size) ==
    ChunkFlush(ChunkLoop(ChunkStart, messages, max_size)).yielded

\* The inputs: up to MaxChunkMsgs messages with any sizes, the identifiers
\* either ascending or descending in insertion order.
ChunkInputs ==
    {[k \in 1..Len(sizes) |->
        [id |-> IF asc THEN k ELSE Len(sizes) + 1 - k, size |-> sizes[k]]] :
        sizes \in SeqsUpTo(0..MaxMsgSize, MaxChunkMsgs), asc \in BOOLEAN}

InitChunk ==
    /\ chunker \in {[pc |-> "loop", messages |-> m, max_size |-> x, i |-> 1,
                     st |-> ChunkStart] :
                        m \in ChunkInputs, x \in 1..MaxChunkBytes}
    /\ matcher = Idle
    /\ mapper = Idle
    /\ MainIdle

\* for msg_id, details in messages.items(): one iteration.
ChunkIter ==
    /\ chunker.pc = "loop"
    /\ chunker.i <= Len(chunker.messages)
    /\ chunker' = [chunker EXCEPT
            !.st = ChunkStep(chunker.st, chunker.messages[chunker.i], chunker.max_size),
            !.i = chunker.i + 1]
    /\ UNCHANGED <<matcher, mapper, mainVars>>

\* The loop is exhausted: the last chunk is yielded and the generator ends.
ChunkFinish ==
    /\ chunker.pc = "loop"
    /\ chunker.i > Len(chunker.messages)
    /\ chunker' = [chunker EXCEPT !.st = ChunkFlush(chunker.st), !.pc = "done"]
    /\ UNCHANGED <<matcher, mapper, mainVars>>

NextChunk == ChunkIter \/ ChunkFinish

SpecChunk == InitChunk /\ [][NextChunk]_vars

ChunkIds == [k \in 1..Len(chunker.messages) |-> chunker.messages[k].id]

\* C5: chunk coverage. While the planner runs, the yielded chunks followed by
\* the chunk being accumulated are the identifiers consumed so far, in input
\* order; when it has ended (which it does after one step per message), the
\* yielded chunks concatenate to the whole input in order; no yielded chunk
\* is empty.
C5_ChunkCoverage ==
    /\ chunker.i \in 1..(Len(chunker.messages) + 1)
    /\ \A c \in 1..Len(chunker.st.yielded) : chunker.st.yielded[c] # <<>>
    /\ chunker.pc = "loop" =>
          Flatten(chunker.st.yielded) \o chunker.st.chunk
              = SubSeq(ChunkIds, 1, chunker.i - 1)
    /\ chunker.pc = "done" =>
          /\ chunker.i = Len(chunker.messages) + 1
          /\ Flatten(chunker.st.yielded) = ChunkIds
          /\ NoDup(Flatten(chunker.st.yielded))

\* A finished plan in which a message at least as large as max_size arrived
\* with the chunk empty, and several chunks were yielded.
C5_Witness ==
    /\ chunker.pc = "done"
    /\ Len(chunker.messages) = MaxChunkMsgs
    /\ chunker.messages[1].size >= chunker.max_size
    /\ Len(chunker.st.yielded) >= 2

\* The reported size of the message with identifier id in the planner's input.
SizeOfId(id) ==
    LET k == CHOOSE k \in 1..Len(chunker.messages) : chunker.messages[k].id = id
    IN chunker.messages[k].size

ChunkSize(chunk) == SumSeq([k \in 1..Len(chunk) |-> SizeOfId(chunk[k])])

\* C13: chunk size bound. At every point of the planner's run, every chunk
\* of two or more messages (yielded, or still being accumulated) has a
\* cumulative size strictly below max_size and chunk_total is the size of the
\* chunk being accumulated; when the planner has ended, every message whose
\* own size is at least max_size was yielded alone in its chunk.
C13_ChunkSizeBound ==
    /\ chunker.st.chunk_total = ChunkSize(chunker.st.chunk)
    /\ Len(chunker.st.chunk) >= 2 => chunker.st.chunk_total < chunker.max_size
    /\ \A c \in 1..Len(chunker.st.yielded) :
          Len(chunker.st.yielded[c]) >= 2 =>
              ChunkSize(chunker.st.yielded[c]) < chunker.max_size
    /\ chunker.pc = "done" =>
          \A k \in 1..Len(chunker.messages) :
              chunker.messages[k].size >= chunker.max_size =>
                  \E c \in 1..Len(chunker.st.yielded) :
                      chunker.st.yielded[c] = <<chunker.messages[k].id>>

\* A finished plan with a chunk of two messages, and a message at least as
\* large as max_size that arrived while the chunk was not empty.
C13_Witness ==
    /\ chunker.pc = "done"
    /\ Len(chunker.messages) = MaxChunkMsgs
    /\ chunker.messages[1].size + chunker.messages[2].size < chunker.max_size
    /\ chunker.messages[3].size >= chunker.max_size
    /\ Len(chunker.st.yielded) = 2
    /\ Len(chunker.st.yielded[1]) = 2

---------------------------------------------------------------------------
(* The folder filter: _folder_matcher(pattern_list, folder_list),          *)
(* cli.py 20-39. A pattern is [dir, glob] with dir "+" (--include) or "-"  *)
(* (--exclude, --no-inbox); names and globs are character sequences.       *)

\* Bounds of the folder filter's inputs.
MaxFilterFolders == 3
MaxPatterns == 2

FilterNames == {<<"A">>, <<"B">>, <<"C">>, <<"A", "B">>}
FilterGlobs == {<<"*">>, <<"A">>, <<"A", "*">>, <<"?">>}

\* fnmatch on a POSIX host (no case folding): "*" matches any run of
\* characters, "?" any one character, anything else itself; the whole name
\* must match. Bracket classes do not occur in FilterGlobs.
RECURSIVE GlobMatch(_, _)
GlobMatch(pat, name) ==
    IF pat = <<>> THEN name = <<>>
    ELSE IF Head(pat) = "*"
         THEN \/ GlobMatch(Tail(pat), name)
              \/ name # <<>> /\ GlobMatch(pat, Tail(name))
    ELSE IF Head(pat) = "?"
         THEN name # <<>> /\ GlobMatch(Tail(pat), Tail(name))
    ELSE name # <<>> /\ Head(name) = Head(pat) /\ GlobMatch(Tail(pat), Tail(name))

\* fnmatch.filter(names, pat): the matching names, in order.
RECURSIVE FnmatchFilter(_, _)
FnmatchFilter(names, pat) ==
    IF names = <<>> THEN <<>>
    ELSE (IF GlobMatch(pat, Head(names)) THEN <<Head(names)>> ELSE <<>>)
            \o FnmatchFilter(Tail(names), pat)

\* A plausible slip: every pattern list starts from the full list.
InitialResultAlwaysFull(pattern_list, folder_list) == folder_list

\* Lines 26-29: the initial working list.
InitialResult(pattern_list, folder_list) ==
    IF pattern_list # <<>> /\ pattern_list[1].dir = "+"
    THEN <<>>
    ELSE folder_list

\* result.extend(name for name in include if name not in result): the
\* generator is consumed while result grows, so each test sees the names
\* already added.
RECURSIVE ExtendNew(_, _)
ExtendNew(result, include) ==
    IF include = <<>> THEN result
    ELSE ExtendNew(IF \E k \in 1..Len(result) : result[k] = Head(include)
                   THEN result ELSE Append(result, Head(include)),
                   Tail(include))

\* A plausible slip: the include branch without its "not in result" test.
IncludeStepNoTest(result, folder_list, glob) ==
    result \o FnmatchFilter(folder_list, glob)

\* A plausible slip: the include branch matching the working list, as the
\* exclude branch does, where the code matches folder_list.
IncludeStepFromResult(result, folder_list, glob) ==
    ExtendNew(result, FnmatchFilter(result, glob))

\* Lines 33-34: the include branch.
IncludeStep(result, folder_list, glob) ==
    ExtendNew(result, FnmatchFilter(folder_list, glob))

\* Lines 36-37: the exclude branch.
ExcludeStep(result, glob) ==
    LET exclude == FnmatchFilter(result, glob)
        Kept(name) == \A k \in 1..Len(exclude) : exclude[k] # name
    IN SelectSeq(result, Kept)

\* One iteration of the loop, lines 31-37, on [result, folder_list, aliased].
\* "result = folder_list" binds both names to one list object: while aliased,
\* extending result extends folder_list too. The exclude branch rebinds
\* result to a new list.
MatcherStep(st, pat) ==
    IF pat.dir = "+"
    THEN LET r == IncludeStep(st.result, st.folder_list, pat.glob)
         IN [result |-> r,
             folder_list |-> IF st.aliased THEN r ELSE st.folder_list,
             aliased |-> st.aliased]
    ELSE [result |-> ExcludeStep(st.result, pat.glob),
          folder_list |-> st.folder_list,
          aliased |-> FALSE]

MatcherStart(pattern_list, folder_list) ==
    [result |-> InitialResult(pattern_list, folder_list),
     folder_list |-> folder_list,
     aliased |-> ~(pattern_list # <<>> /\ pattern_list[1].dir = "+")]

RECURSIVE MatcherLoop(_, _)
MatcherLoop(st, pattern_list) ==
    IF pattern_list = <<>> THEN st
    ELSE MatcherLoop(MatcherStep(st, Head(pattern_list)), Tail(pattern_list))

\* The value _folder_matcher returns.
_folder_matcher(pattern_list, folder_list) ==
    MatcherLoop(MatcherStart(pattern_list, folder_list), pattern_list).result

FilterPatterns == {[dir |-> d, glob |-> g] : d \in {"+", "-"}, g \in FilterGlobs}

FilterFolderLists == {l \in SeqsUpTo(FilterNames, MaxFilterFolders) : NoDup(l)}

\* names is the folder list as the caller passed it.
InitFilter ==
    /\ matcher \in {[pc |-> "loop", pattern_list |-> pl, names |-> fl, i |-> 1,
                     st |-> MatcherStart(pl, fl)] :
                        pl \in SeqsUpTo(FilterPatterns, MaxPatterns),
                        fl \in FilterFolderLists}
    /\ chunker = Idle
    /\ mapper = Idle
    /\ MainIdle

\* for direction, pattern in pattern_list: one iteration.
MatcherIter ==
    /\ matcher.pc = "loop"
    /\ matcher.i <= Len(matcher.pattern_list)
    /\ matcher' = [matcher EXCEPT
            !.st = MatcherStep(matcher.st, matcher.pattern_list[matcher.i]),
            !.i = matcher.i + 1]
    /\ UNCHANGED <<chunker, mapper, mainVars>>

\* return result
MatcherReturn ==
    /\ matcher.pc = "loop"
    /\ matcher.i > Len(matcher.pattern_list)
    /\ matcher' = [matcher EXCEPT !.pc = "done"]
    /\ UNCHANGED <<chunker, mapper, mainVars>>

NextFilter == MatcherIter \/ MatcherReturn

SpecFilter == InitFilter /\ [][NextFilter]_vars

\* The fold the filter is specified as: an include adds the names of the
\* original list that match and are not yet in the working list, an exclude
\* removes the names of the working list that match.
FoldInclude(working, original, glob) ==
    LET Fresh(name) == GlobMatch(glob, name) /\ name \notin Range(working)
    IN working \o SelectSeq(original, Fresh)

FoldExclude(working, glob) ==
    LET Stays(name) == ~GlobMatch(glob, name)
    IN SelectSeq(working, Stays)

RECURSIVE FoldPatterns(_, _, _)
FoldPatterns(working, original, pats) ==
    IF pats = <<>> THEN working
    ELSE FoldPatterns(IF Head(pats).dir = "+"
                      THEN FoldInclude(working, original, Head(pats).glob)
                      ELSE FoldExclude(working, Head(pats).glob),
                      original, Tail(pats))

FoldStart(pats, original) ==
    IF pats = <<>> \/ pats[1].dir = "-" THEN original ELSE <<>>

ABC == << <<"A">>, <<"B">>, <<"C">> >>
IncA == [dir |-> "+", glob |-> <<"A">>]
ExcAll == [dir |-> "-", glob |-> <<"*">>]

\* C6: folder filter fold semantics. After k patterns the working list is the
\* left fold of the first k patterns from the specified initial list, so the
\* returned list is the fold of them all; the caller's list is left as it
\* was; on [A,B,C], [(include,A),(exclude,*)] returns [] and
\* [(exclude,*),(include,A)] returns [A].
C6_FilterFold ==
    /\ matcher.st.result =
          FoldPatterns(FoldStart(matcher.pattern_list, matcher.names),
                       matcher.names,
                       SubSeq(matcher.pattern_list, 1, matcher.i - 1))
    /\ matcher.st.folder_list = matcher.names
    /\ matcher.pc = "done" =>
          /\ matcher.i = Len(matcher.pattern_list) + 1
          /\ (matcher.names = ABC /\ matcher.pattern_list = <<IncA, ExcAll>>)
                => matcher.st.result = <<>>
          /\ (matcher.names = ABC /\ matcher.pattern_list = <<ExcAll, IncA>>)
                => matcher.st.result = << <<"A">> >>

\* The filter has returned [A] for [(exclude,*),(include,A)] on [A,B,C].
C6_Witness ==
    /\ matcher.pc = "done"
    /\ matcher.names = ABC
    /\ matcher.pattern_list = <<ExcAll, IncA>>
    /\ matcher.st.result = << <<"A">> >>

\* C7: folder filter invariant. Initially, after every pattern and on return,
\* no name occurs twice in the working list and every name of it is a name of
\* the caller's folder list; with no pattern the caller's list is returned.
C7_FilterInvariant ==
    /\ NoDup(matcher.st.result)
    /\ Range(matcher.st.result) \subseteq Range(matcher.names)
    /\ (matcher.pc = "done" /\ matcher.pattern_list = <<>>)
          => matcher.st.result = matcher.names

\* An include has run on a working list that already held one of the names
\* it matches, and the filter has returned.
C7_Witness ==
    /\ matcher.pc = "done"
    /\ Len(matcher.pattern_list) = 2
    /\ matcher.pattern_list[1] = [dir |-> "+", glob |-> <<"A">>]
    /\ matcher.pattern_list[2] = [dir |-> "+", glob |-> <<"A", "*">>]
    /\ matcher.names = << <<"A", "B">>, <<"A">> >>
    /\ matcher.st.result = << <<"A">>, <<"A", "B">> >>

\* The index of the last of pats whose glob matches name, 0 when none does.
LastMatching(pats, name) ==
    LET hits == {k \in 1..Len(pats) : GlobMatch(pats[k].glob, name)}
    IN IF hits = {} THEN 0 ELSE CHOOSE k \in hits : \A h \in hits : h <= k

\* The patterns the loop has applied so far.
AppliedPatterns == SubSeq(matcher.pattern_list, 1, matcher.i - 1)

\* C16: filter membership is decided by the last matching pattern. After any
\* number of patterns (and so on return, when all have been applied) a name
\* of the folder list is in the working list iff the last applied pattern
\* whose glob matches it is an include, or no applied pattern matches it and
\* the initial working list was the full list (pattern list empty or
\* exclude-first); nothing else is in the working list.
C16_LastMatchDecides ==
    /\ Range(matcher.st.result) \subseteq Range(matcher.names)
    /\ \A n \in Range(matcher.names) :
          LET lm == LastMatching(AppliedPatterns, n)
          IN (n \in Range(matcher.st.result)) <=>
                IF lm = 0
                THEN matcher.pattern_list = <<>> \/ matcher.pattern_list[1].dir = "-"
                ELSE AppliedPatterns[lm].dir = "+"
    /\ matcher.pc = "done" => AppliedPatterns = matcher.pattern_list

\* The filter has returned after an include re-added names that an earlier
\* exclude had removed, leaving out a name only the exclude matched.
C16_Witness ==
    /\ matcher.pc = "done"
    /\ matcher.pattern_list = <<ExcAll, [dir |-> "+", glob |-> <<"A", "*">>]>>
    /\ matcher.names = << <<"B">>, <<"A", "B">>, <<"A">> >>
    /\ matcher.st.result = << <<"A", "B">>, <<"A">> >>

---------------------------------------------------------------------------
(* The folder name mapper: fix_path, mover.py 73-78. Separators are single *)
(* characters; replace_sep is a string.                                    *)

\* Bound of the mapper's inputs.
MaxPathLen == 5

PathChars == {"a", "/", ".", "_"}
Separators == {"/", "."}
ReplaceSeps == {<<"_">>, <<"/">>}

\* str.replace(old, new) for a one-character old.
RECURSIVE StrReplace(_, _, _)
StrReplace(s, old, new) ==
    IF s = <<>> THEN <<>>
    ELSE (IF Head(s) = old THEN new ELSE <<Head(s)>>) \o StrReplace(Tail(s), old, new)

\* A plausible slip: the two replacements in the other order.
FixPathTranslateFirst(path, src_dir_separator, dest_dir_separator, replace_sep) ==
    IF src_dir_separator # dest_dir_separator
    THEN StrReplace(StrReplace(path, src_dir_separator, <<dest_dir_separator>>),
                    dest_dir_separator, replace_sep)
    ELSE path

\* Lines 73-78: the fix_path chosen for the two separators, applied to path.
fix_path(path, src_dir_separator, dest_dir_separator, replace_sep) ==
    IF src_dir_separator # dest_dir_separator
    THEN StrReplace(StrReplace(path, dest_dir_separator, replace_sep),
                    src_dir_separator, <<dest_dir_separator>>)
    ELSE path

ExamplePath == <<"a", "/", "b", ".", "c">>

MapperPaths == SeqsUpTo(PathChars, MaxPathLen) \cup {ExamplePath}

InitMap ==
    /\ mapper \in {[pc |-> "start", path |-> p, src_dir_separator |-> s,
                    dest_dir_separator |-> d, replace_sep |-> r,
                    fixed_path |-> <<>>] :
                        p \in MapperPaths, s \in Separators, d \in Separators,
                        r \in ReplaceSeps}
    /\ chunker = Idle
    /\ matcher = Idle
    /\ MainIdle

\* Line 80: fix_path(path) for one entry of the Directory Map.
MapPath ==
    /\ mapper.pc = "start"
    /\ mapper' = [mapper EXCEPT
            !.fixed_path = fix_path(mapper.path, mapper.src_dir_separator,
                                   mapper.dest_dir_separator, mapper.replace_sep),
            !.pc = "mapped"]
    /\ UNCHANGED <<chunker, matcher, mainVars>>

NextMap == MapPath

SpecMap == InitMap /\ [][NextMap]_vars

\* s with every character equal to old replaced by the string new.
SubstChar(s, old, new) ==
    Flatten([k \in 1..Len(s) |-> IF s[k] = old THEN new ELSE <<s[k]>>])

\* C8: folder name mapping. With equal separators the mapped path is the
\* source path; with different ones it is the source path with every
\* destination separator replaced by the substitute and then every source
\* separator replaced by the destination separator; 'a/b.c' from '/' to '.'
\* with substitute '_' maps to 'a.b_c'.
C8_NameMapping ==
    mapper.pc = "mapped" =>
        /\ mapper.src_dir_separator = mapper.dest_dir_separator
              => mapper.fixed_path = mapper.path
        /\ mapper.src_dir_separator # mapper.dest_dir_separator
              => mapper.fixed_path =
                    SubstChar(SubstChar(mapper.path, mapper.dest_dir_separator,
                                        mapper.replace_sep),
                              mapper.src_dir_separator,
                              <<mapper.dest_dir_separator>>)
        /\ (/\ mapper.path = ExamplePath
            /\ mapper.src_dir_separator = "/"
            /\ mapper.dest_dir_separator = "."
            /\ mapper.replace_sep = <<"_">>)
              => mapper.fixed_path = <<"a", ".", "b", "_", "c">>

\* 'a/b.c' has been mapped from '/' to '.' with substitute '_'.
C8_Witness ==
    /\ mapper.pc = "mapped"
    /\ mapper.path = ExamplePath
    /\ mapper.src_dir_separator = "/"
    /\ mapper.dest_dir_separator = "."
    /\ mapper.replace_sep = <<"_">>
    /\ mapper.fixed_path = <<"a", ".", "b", "_", "c">>

---------------------------------------------------------------------------
(* The two IMAP servers, as the protocol client (imapclient.IMAPClient)     *)
(* shows them. A server is [conn, sep, folders, mail, flagsOf, selected]:   *)
(* the state of the connection, the hierarchy separator, the LIST response  *)
(* (a sequence of [flags, sep, path]), each folder's messages in UID order  *)
(* (a message's identifier is its position), the FLAGS each folder reports  *)
(* when selected, and the selected folder (<<>>: none).                     *)
(* A message is [key, size, flags, date]: the value of its Message-ID and   *)
(* Date headers (which stands for its raw content), RFC822.SIZE, FLAGS and  *)
(* INTERNALDATE.                                                            *)

\* Bounds of the servers' contents.
MaxSrcMsgs == 3
MaxDestMsgs == 1
\* The model's stand-in for MSG_CHUNK_SIZE = 1000 (mover.py 18), scaled so
\* that a folder of MaxSrcMsgs messages needs more than one header fetch.
MSG_CHUNK_SIZE == 2
\* The model's stand-in for max_size = 4 << 20 (mover.py 149), scaled to the
\* sizes of MessageOf.
CHUNK_MAX_SIZE == 3

Keys == {"k1", "k2"}

\* The messages of the model: two header values, each deleted or not.
MessageOf(key, deleted) ==
    [key |-> key,
     size |-> IF key = "k1" THEN 1 ELSE 2,
     flags |-> (IF key = "k1" THEN <<"\\Seen", "$Label", "\\Answered">>
                ELSE <<"\\Answered", "\\Seen">>)
              \o (IF deleted THEN <<"\\Deleted">> ELSE <<>>),
     date |-> IF key = "k1" THEN "d1" ELSE "d2"]

Messages == {MessageOf(k, d) : k \in Keys, d \in BOOLEAN}

IsDeleted(m) == \E k \in 1..Len(m.flags) : m.flags[k] = "\\Deleted"

FolderFlags == <<"\\HasNoChildren">>

\* The FLAGS of a folder that was on the destination before the run.
OldFolderFlags == {"\\Answered", "\\Deleted", "$Label"}

\* The FLAGS of a folder the server has just created.
NewFolderFlags == {"\\Seen", "\\Answered", "\\Deleted"}

Listing(sep, paths) ==
    [k \in 1..Len(paths) |-> [flags |-> FolderFlags, sep |-> sep, path |-> paths[k]]]

Server(sep, paths, mail, flagsOf) ==
    [conn |-> "none", sep |-> sep, folders |-> Listing(sep, paths),
     mail |-> mail, flagsOf |-> flagsOf, selected |-> <<>>]

HasFolder(srv, path) == path \in DOMAIN srv.mail

\* SEARCH NOT DELETED on the selected folder: identifiers in ascending order.
Search(srv) ==
    LET mail == srv.mail[srv.selected]
        Live(k) == ~IsDeleted(mail[k])
    IN SelectSeq([k \in 1..Len(mail) |-> k], Live)

\* CREATE path.
WithFolder(srv, path) ==
    [srv EXCEPT !.folders = Append(@, [flags |-> FolderFlags, sep |-> srv.sep,
                                       path |-> path]),
                !.mail = (path :> <<>>) @@ @,
                !.flagsOf = (path :> NewFolderFlags) @@ @]

\* APPEND path: the server stores the message with the flags and date given.
WithMessage(srv, path, msg) ==
    [srv EXCEPT !.mail[path] = Append(@, msg)]

\* One protocol call, for the log.
Call(srv, op, arg, ok) == [srv |-> srv, op |-> op, arg |-> arg, ok |-> ok]

\* The data items a fetch asks for: line 127, line 140 and line 151.
MSG_ID_HEADERS == "BODY[HEADER.FIELDS (MESSAGE-ID DATE)]"
MSG_ID_HEADERS_AND_SIZE == "BODY[HEADER.FIELDS (MESSAGE-ID DATE)] RFC822.SIZE"
MSG_WHOLE == "FLAGS INTERNALDATE RFC822.SIZE RFC822"

\* The argument of a fetch call.
Fetch(ids, data) == [ids |-> ids, data |-> data]

NoFilter == [given |-> FALSE, patterns |-> <<>>]

FilterOf(patterns) == [given |-> TRUE, patterns |-> patterns]

SyncStart(dry_run, folder_filter) ==
    [pc |-> "connect_src", dry_run |-> dry_run, folder_filter |-> folder_filter,
     replace_sep |-> <<"_">>, exc |-> "none"]

\* The locals of _imap_sync_core before its first statement. dest_flag_bound
\* tells whether dest_flag_set has been assigned.
CoreStart ==
    [src_folder_data |-> <<>>, src_dir_separator |-> "",
     dest_folder_data |-> <<>>, dest_dir_separator |-> "",
     dir_map |-> <<>>, missing_folders |-> <<>>, mk |-> 0, fi |-> 0,
     dest_flag_set |-> {}, dest_flag_bound |-> FALSE,
     dest_messages |-> <<>>, dest_msg_set |-> {}, bi |-> 0,
     data_total |-> 0, src_messages |-> <<>>, move_messages |-> <<>>,
     chunks |-> <<>>, ci |-> 0, msgs |-> <<>>, mi |-> 0]

PathA == <<"a">>
PathB == <<"b">>

\* The observer's record: the messages of the destination folder when it was
\* last selected (seen); for each folder whose transfer set has been computed,
\* [path, fixed_path, seen, move_messages, data_total] (plans); the destination
\* as it was when the run started (dest0); and the outcome of an earlier run
\* from the same states, if there was one (first).
NoRun == [ran |-> FALSE, exc |-> "none", plans |-> <<>>]

ObsStart(dest0) ==
    [seen |-> <<>>, plans |-> <<>>, dest0 |-> dest0, first |-> NoRun]

\* The states a run starts in are of three kinds: InitMessages, InitFolders
\* and InitBatches.

\* One source folder 'a' with any messages; the destination either has 'a',
\* with any messages, or has only 'b'. Equal separators, no folder filter.
InitMessages ==
    /\ \E d \in BOOLEAN, sm \in SeqsUpTo(Messages, MaxSrcMsgs) :
          /\ sync = SyncStart(d, NoFilter)
          /\ src = Server("/", <<PathA>>, PathA :> sm, PathA :> NewFolderFlags)
    /\ \E dp \in {PathA, PathB} :
          \E dm \in IF dp = PathA THEN SeqsUpTo(Messages, MaxDestMsgs) ELSE {<<>>} :
             dest = Server("/", <<dp>>, dp :> dm, dp :> NewFolderFlags)
    /\ core = CoreStart
    /\ calls = <<>>
    /\ obs = ObsStart(dest)
    /\ chunker = Idle
    /\ matcher = Idle
    /\ mapper = Idle

\* Bound of the source's folder listing in InitFolders.
MaxFolders == 2

SrcPaths == {<<"a", "/", "b">>, <<"a", ".", "b">>, <<"a", "_", "b">>}

MainFilters ==
    {NoFilter, FilterOf(<<>>),
     FilterOf(<<[dir |-> "-", glob |-> <<"a", "_", "b">>]>>),
     FilterOf(<<[dir |-> "+", glob |-> <<"a", ".", "*">>]>>)}

\* Up to MaxFolders source folders, listed in any order, each with one
\* message; either destination separator; the destination has 'b' and at
\* most one more folder, empty or with one message; any of MainFilters.
InitFolders ==
    /\ \E d \in BOOLEAN, ff \in MainFilters,
          paths \in {l \in SeqsUpTo(SrcPaths, MaxFolders) : l # <<>> /\ NoDup(l)} :
          /\ sync = SyncStart(d, ff)
          /\ \E sm \in [Range(paths) -> {<<MessageOf(k, FALSE)>> : k \in Keys}] :
                src = Server("/", paths, sm, [q \in Range(paths) |-> NewFolderFlags])
    /\ \E dsep \in Separators,
          more \in {<<>>} \cup {<<q>> : q \in SrcPaths},
          dm \in {<<>>, <<MessageOf("k1", FALSE)>>} :
          /\ more = <<>> => dm = <<>>
          /\ dest = Server(dsep, <<PathB>> \o more,
                           [q \in {PathB} \cup Range(more) |->
                                IF q = PathB THEN <<>> ELSE dm],
                           [q \in {PathB} \cup Range(more) |->
                                IF q = PathB THEN NewFolderFlags ELSE OldFolderFlags])
    /\ core = CoreStart
    /\ calls = <<>>
    /\ obs = ObsStart(dest)
    /\ chunker = Idle
    /\ matcher = Idle
    /\ mapper = Idle

\* Bound of a folder's messages in InitBatches; more than MSG_CHUNK_SIZE, so
\* that the destination's headers need more than one fetch.
MaxBatchMsgs == 3

\* One folder 'a' on both servers: the destination's holds MaxBatchMsgs
\* messages, the source's up to MaxBatchMsgs non-deleted messages of one key.
\* Equal separators, no folder filter.
InitBatches ==
    /\ \E d \in BOOLEAN, sm \in SeqsUpTo({MessageOf("k1", FALSE)}, MaxBatchMsgs) :
          /\ sync = SyncStart(d, NoFilter)
          /\ src = Server("/", <<PathA>>, PathA :> sm, PathA :> NewFolderFlags)
    /\ \E dm \in [1..MaxBatchMsgs ->
                     {MessageOf("k1", FALSE), MessageOf("k2", FALSE), MessageOf("k2", TRUE)}] :
          dest = Server("/", <<PathA>>, PathA :> dm, PathA :> OldFolderFlags)
    /\ core = CoreStart
    /\ calls = <<>>
    /\ obs = ObsStart(dest)
    /\ chunker = Idle
    /\ matcher = Idle
    /\ mapper = Idle

---------------------------------------------------------------------------
(* imap_sync and _imap_sync_core, mover.py 57-186: one action per protocol *)
(* call, each with the local computation around the call.                  *)

\* Python's order on str (code points), for the characters of the model.
Ord(c) ==
    CASE c = "." -> 46 [] c = "/" -> 47 [] c = "A" -> 65 [] c = "B" -> 66
      [] c = "C" -> 67 [] c = "_" -> 95 [] c = "a" -> 97 [] c = "b" -> 98
      [] OTHER -> 127

RECURSIVE StrLess(_, _)
StrLess(p, q) ==
    IF q = <<>> THEN FALSE
    ELSE IF p = <<>> THEN TRUE
    ELSE IF Head(p) = Head(q) THEN StrLess(Tail(p), Tail(q))
    ELSE Ord(Head(p)) < Ord(Head(q))

\* A plausible slip: the sort of line 82 left out ("not strictly necessary").
SortDirMapOmitted(l) == l

\* list.sort() on (path, flags, fixed_path) tuples with distinct paths: by path.
RECURSIVE InsertSorted(_, _)
InsertSorted(sorted, e) ==
    IF sorted = <<>> THEN <<e>>
    ELSE IF StrLess(e.path, Head(sorted).path) THEN <<e>> \o sorted
    ELSE <<Head(sorted)>> \o InsertSorted(Tail(sorted), e)

RECURSIVE SortDirMap(_)
SortDirMap(l) ==
    IF l = <<>> THEN <<>> ELSE InsertSorted(SortDirMap(Tail(l)), Head(l))

\* Lines 80-82: the sorted Directory Map.
DirMap(src_folder_data, src_sep, dest_sep, replace_sep) ==
    SortDirMap([k \in 1..Len(src_folder_data) |->
        [path |-> src_folder_data[k].path,
         flags |-> src_folder_data[k].flags,
         fixed_path |-> fix_path(src_folder_data[k].path, src_sep, dest_sep,
                                replace_sep)]])

\* Lines 85-90: the folder filter applied to the Directory Map.
FilterDirMap(dir_map, folder_filter) ==
    IF folder_filter.given
    THEN LET all_names == [k \in 1..Len(dir_map) |-> dir_map[k].path]
             filtered_names == _folder_matcher(folder_filter.patterns, all_names)
             Passes(e) == e.path \in Range(filtered_names)
         IN SelectSeq(dir_map, Passes)
    ELSE dir_map

\* A plausible slip: the source path looked up in the destination's listing
\* where the code looks up fixed_path.
MissingFoldersBySourcePath(dir_map, dest_folder_data) ==
    LET dest_folder_set == {dest_folder_data[k].path : k \in 1..Len(dest_folder_data)}
        Missing(e) == e.path \notin dest_folder_set
        missing == SelectSeq(dir_map, Missing)
    IN [k \in 1..Len(missing) |->
            [fixed_path |-> missing[k].fixed_path, flags |-> missing[k].flags]]

\* Lines 93-94: missing_folders, a list of (fixed_path, flags) tuples.
MissingFolders(dir_map, dest_folder_data) ==
    LET dest_folder_set == {dest_folder_data[k].path : k \in 1..Len(dest_folder_data)}
        Missing(e) == e.fixed_path \notin dest_folder_set
        missing == SelectSeq(dir_map, Missing)
    IN [k \in 1..Len(missing) |->
            [fixed_path |-> missing[k].fixed_path, flags |-> missing[k].flags]]

\* Line 116: "not dry_run or fixed_path not in missing_folders". fixed_path is
\* a str and the elements of missing_folders are (fixed_path, flags) tuples;
\* in Python a str is never equal to a tuple, so the membership test is False
\* for every element.
StrEqualsTuple(str, tuple) == FALSE

SelectOnDest(dry_run, fixed_path, missing_folders) ==
    \/ ~dry_run
    \/ ~\E k \in 1..Len(missing_folders) : StrEqualsTuple(fixed_path, missing_folders[k])

\* A plausible slip: the number of batches rounded down.
NumBatchesRoundedDown(n) == n \div MSG_CHUNK_SIZE

\* Line 125: range(-(-len(messages) // MSG_CHUNK_SIZE)).
NumBatches(n) == 0 - ((0 - n) \div MSG_CHUNK_SIZE)

\* Lines 126, 139: messages[i*MSG_CHUNK_SIZE:(i+1)*MSG_CHUNK_SIZE].
BatchIds(ids, i) ==
    SubSeq(ids, i * MSG_CHUNK_SIZE + 1,
           IF (i + 1) * MSG_CHUNK_SIZE < Len(ids) THEN (i + 1) * MSG_CHUNK_SIZE
           ELSE Len(ids))

\* A plausible slip: the membership test of line 142 left out.
KeepMessageAlways(key, dest_msg_set) == TRUE

\* Line 142: a source message is to be moved when its headers are not among
\* the destination's.
KeepMessage(key, dest_msg_set) == key \notin dest_msg_set

\* Lines 141-144 over one fetched batch, on [move_messages, data_total].
RECURSIVE Dedupe(_, _, _, _)
Dedupe(acc, ids, mail, dest_msg_set) ==
    IF ids = <<>> THEN acc
    ELSE LET details == mail[Head(ids)]
         IN Dedupe(IF KeepMessage(details.key, dest_msg_set)
                   THEN [move_messages |->
                            Append(acc.move_messages,
                                   [id |-> Head(ids), key |-> details.key,
                                    size |-> details.size]),
                         data_total |-> acc.data_total + details.size]
                   ELSE acc,
                   Tail(ids), mail, dest_msg_set)

\* A plausible slip: the message's flags passed on as they are.
ReconcileFlagsUnfiltered(flags, dest_flag_set) == flags

\* Line 155: [f for f in msg[MSG_FLAGS] if f in dest_flag_set].
ReconcileFlags(flags, dest_flag_set) ==
    LET Supported(f) == f \in dest_flag_set
    IN SelectSeq(flags, Supported)

\* A plausible slip: connections closed by calls at the end of imap_sync
\* instead of by with blocks, so that an exception passes them by.
UnwindNoCleanup(pc) == "returned"

\* The exception an action raises leaves through the with blocks that are
\* open: the place where imap_sync goes on after a raise at pc.
UnwindFrom(pc) ==
    CASE pc = "connect_src" -> "returned"
      [] pc \in {"login_src", "connect_dest", "exit_src"} -> "exit_src"
      [] OTHER -> "exit_dest"

\* A plausible slip: the failing call wrapped in a retry loop, so that the
\* exception is swallowed and imap_sync stays where it was.
RaisedAndRetried(exc) == sync

Raised(exc) == [sync EXCEPT !.exc = exc, !.pc = UnwindFrom(sync.pc)]

\* A plausible slip: the source folder taken up before the destination's.
EnterFolderSourceFirst(c, i) ==
    IF i <= Len(c.dir_map) THEN "select_src" ELSE "exit_dest"

\* The for loop of line 110 moves to its next entry or ends.
EnterFolder(c, i) ==
    IF i <= Len(c.dir_map) THEN "select_dest" ELSE "exit_dest"

Goto(pc) == sync' = [sync EXCEPT !.pc = pc]

pureVars == <<chunker, matcher, mapper>>

\* Line 173: IMAPClient(host=src_info.hostname, ...) connects.
ConnectSrc ==
    /\ sync.pc = "connect_src"
    /\ src' = [src EXCEPT !.conn = "open"]
    /\ calls' = Append(calls, Call("src", "connect", <<>>, TRUE))
    /\ Goto("login_src")
    /\ UNCHANGED <<core, dest, obs, pureVars>>

\* Line 174.
LoginSrc ==
    /\ sync.pc = "login_src"
    /\ src' = [src EXCEPT !.conn = "auth"]
    /\ calls' = Append(calls, Call("src", "login", <<>>, TRUE))
    /\ Goto("connect_dest")
    /\ UNCHANGED <<core, dest, obs, pureVars>>

\* Line 178.
ConnectDest ==
    /\ sync.pc = "connect_dest"
    /\ dest' = [dest EXCEPT !.conn = "open"]
    /\ calls' = Append(calls, Call("dest", "connect", <<>>, TRUE))
    /\ Goto("login_dest")
    /\ UNCHANGED <<core, src, obs, pureVars>>

\* Line 179, and the call of _imap_sync_core.
LoginDest ==
    /\ sync.pc = "login_dest"
    /\ dest' = [dest EXCEPT !.conn = "auth"]
    /\ calls' = Append(calls, Call("dest", "login", <<>>, TRUE))
    /\ Goto("list_src")
    /\ UNCHANGED <<core, src, obs, pureVars>>

\* Lines 63-66.
ListSrc ==
    /\ sync.pc = "list_src"
    /\ core' = [core EXCEPT !.src_folder_data = src.folders,
                            !.src_dir_separator = src.folders[1].sep]
    /\ calls' = Append(calls, Call("src", "list_folders", <<>>, TRUE))
    /\ Goto("list_dest")
    /\ UNCHANGED <<src, dest, obs, pureVars>>

\* Lines 68-106: the destination's listing, the Directory Map, the filter and
\* the missing folders. In a dry run the loop of lines 100-103 issues no call
\* and is passed here.
ListDest ==
    /\ sync.pc = "list_dest"
    /\ LET dest_folder_data == dest.folders
           dest_sep == dest_folder_data[1].sep
           dir_map == FilterDirMap(
                          DirMap(core.src_folder_data, core.src_dir_separator,
                                 dest_sep, sync.replace_sep),
                          sync.folder_filter)
           missing == MissingFolders(dir_map, dest_folder_data)
           c == [core EXCEPT !.dest_folder_data = dest_folder_data,
                             !.dest_dir_separator = dest_sep,
                             !.dir_map = dir_map,
                             !.missing_folders = missing]
       IN IF missing # <<>> /\ ~sync.dry_run
          THEN /\ core' = [c EXCEPT !.mk = 1]
               /\ Goto("create")
          ELSE /\ core' = [c EXCEPT !.fi = 1]
               /\ Goto(EnterFolder(c, 1))
    /\ calls' = Append(calls, Call("dest", "list_folders", <<>>, TRUE))
    /\ UNCHANGED <<src, dest, obs, pureVars>>

\* Lines 100-103 when not dry_run: dest.create_folder(folder_path). The
\* server refuses to create a folder it already has.
CreateFolder ==
    /\ sync.pc = "create"
    /\ LET folder_path == core.missing_folders[core.mk].fixed_path
       IN IF HasFolder(dest, folder_path)
          THEN /\ calls' = Append(calls, Call("dest", "create_folder", folder_path, FALSE))
               /\ sync' = Raised("error")
               /\ UNCHANGED <<core, dest>>
          ELSE /\ calls' = Append(calls, Call("dest", "create_folder", folder_path, TRUE))
               /\ dest' = WithFolder(dest, folder_path)
               /\ IF core.mk < Len(core.missing_folders)
                  THEN /\ core' = [core EXCEPT !.mk = core.mk + 1]
                       /\ UNCHANGED sync
                  ELSE /\ core' = [core EXCEPT !.fi = 1]
                       /\ Goto(EnterFolder(core, 1))
    /\ UNCHANGED <<src, obs, pureVars>>

\* Lines 110-121: the next entry of dir_map; the destination folder is
\* selected, or taken to be empty. The server refuses to select a folder it
\* does not have.
SelectDest ==
    /\ sync.pc = "select_dest"
    /\ LET fixed_path == core.dir_map[core.fi].fixed_path
       IN IF SelectOnDest(sync.dry_run, fixed_path, core.missing_folders)
          THEN IF HasFolder(dest, fixed_path)
               THEN /\ calls' = Append(calls, Call("dest", "select_folder", fixed_path, TRUE))
                    /\ dest' = [dest EXCEPT !.selected = fixed_path]
                    /\ core' = [core EXCEPT !.dest_flag_set = dest.flagsOf[fixed_path],
                                            !.dest_flag_bound = TRUE]
                    /\ obs' = [obs EXCEPT !.seen = dest.mail[fixed_path]]
                    /\ Goto("search_dest")
               ELSE /\ calls' = Append(calls, Call("dest", "select_folder", fixed_path, FALSE))
                    /\ sync' = Raised("error")
                    /\ UNCHANGED <<core, dest, obs>>
          ELSE /\ core' = [core EXCEPT !.dest_messages = <<>>, !.dest_msg_set = {}]
               /\ obs' = [obs EXCEPT !.seen = <<>>]
               /\ Goto("select_src")
               /\ UNCHANGED <<calls, dest>>
    /\ UNCHANGED <<src, pureVars>>

\* Lines 119-125.
SearchDest ==
    /\ sync.pc = "search_dest"
    /\ LET dest_messages == Search(dest)
       IN /\ core' = [core EXCEPT !.dest_messages = dest_messages,
                                  !.dest_msg_set = {}, !.bi = 0]
          /\ calls' = Append(calls, Call("dest", "search", dest.selected, TRUE))
          /\ Goto(IF NumBatches(Len(dest_messages)) > 0 THEN "fetch_dest" ELSE "select_src")
    /\ UNCHANGED <<src, dest, obs, pureVars>>

\* Lines 126-129: one batch of the destination's identifying headers.
FetchDestHeaders ==
    /\ sync.pc = "fetch_dest"
    /\ LET chunk_ids == BatchIds(core.dest_messages, core.bi)
           mail == dest.mail[dest.selected]
           last == core.bi + 1 >= NumBatches(Len(core.dest_messages))
       IN /\ core' = [core EXCEPT
                  !.dest_msg_set = @ \cup {mail[chunk_ids[k]].key : k \in 1..Len(chunk_ids)},
                  !.bi = @ + 1]
          /\ calls' = Append(calls, Call("dest", "fetch",
                                         Fetch(chunk_ids, MSG_ID_HEADERS), TRUE))
          /\ Goto(IF last THEN "select_src" ELSE "fetch_dest")
    /\ UNCHANGED <<src, dest, obs, pureVars>>

\* The loop of line 110 goes on to its next entry, or _imap_sync_core returns.
NextFolder(c) ==
    /\ core' = [c EXCEPT !.fi = c.fi + 1]
    /\ Goto(EnterFolder(c, c.fi + 1))

\* Lines 131-134.
SelectSrc ==
    /\ sync.pc = "select_src"
    /\ LET path == core.dir_map[core.fi].path
       IN /\ src' = [src EXCEPT !.selected = path]
          /\ calls' = Append(calls, Call("src", "select_folder", path, TRUE))
    /\ core' = [core EXCEPT !.data_total = 0]
    /\ Goto("search_src")
    /\ UNCHANGED <<dest, obs, pureVars>>

\* Lines 146-149 once the source's headers are in: the chunk plan of the
\* messages to move. (The generator is consumed chunk by chunk while
\* move_messages stays as it is, so the chunks are those of a full run.)
Planned(c) ==
    LET plan == [k \in 1..Len(c.move_messages) |->
                    [id |-> c.move_messages[k].id, size |-> c.move_messages[k].size]]
    IN [c EXCEPT !.chunks = _chunk_messages(plan, CHUNK_MAX_SIZE), !.ci = 1]

AfterPlan(c) ==
    /\ obs' = [obs EXCEPT !.plans = Append(@,
                  [path |-> c.dir_map[c.fi].path,
                   fixed_path |-> c.dir_map[c.fi].fixed_path,
                   seen |-> obs.seen,
                   move_messages |-> c.move_messages,
                   data_total |-> c.data_total])]
    /\ IF c.chunks # <<>>
       THEN /\ core' = c
            /\ Goto("fetch_chunk")
       ELSE NextFolder(c)

\* Lines 135-138.
SearchSrc ==
    /\ sync.pc = "search_src"
    /\ LET src_messages == Search(src)
           c == [core EXCEPT !.src_messages = src_messages,
                             !.move_messages = <<>>, !.bi = 0]
       IN /\ calls' = Append(calls, Call("src", "search", src.selected, TRUE))
          /\ IF NumBatches(Len(src_messages)) > 0
             THEN /\ core' = c
                  /\ Goto("fetch_src")
                  /\ UNCHANGED obs
             ELSE AfterPlan(Planned(c))
    /\ UNCHANGED <<src, dest, pureVars>>

\* Lines 139-144: one batch of the source's identifying headers and sizes.
FetchSrcHeaders ==
    /\ sync.pc = "fetch_src"
    /\ LET chunk_ids == BatchIds(core.src_messages, core.bi)
           got == Dedupe([move_messages |-> core.move_messages,
                          data_total |-> core.data_total],
                         chunk_ids, src.mail[src.selected], core.dest_msg_set)
           c == [core EXCEPT !.move_messages = got.move_messages,
                             !.data_total = got.data_total,
                             !.bi = @ + 1]
       IN /\ calls' = Append(calls, Call("src", "fetch",
                                         Fetch(chunk_ids, MSG_ID_HEADERS_AND_SIZE), TRUE))
          /\ IF c.bi < NumBatches(Len(core.src_messages))
             THEN /\ core' = c
                  /\ Goto("fetch_src")
                  /\ UNCHANGED obs
             ELSE AfterPlan(Planned(c))
    /\ UNCHANGED <<src, dest, pureVars>>

\* Line 151: the messages of one chunk, fetched whole.
FetchChunk ==
    /\ sync.pc = "fetch_chunk"
    /\ LET chunk_ids == core.chunks[core.ci]
           mail == src.mail[src.selected]
       IN /\ core' = [core EXCEPT !.msgs = [k \in 1..Len(chunk_ids) |-> mail[chunk_ids[k]]],
                                  !.mi = 1]
          /\ calls' = Append(calls, Call("src", "fetch",
                                         Fetch(chunk_ids, MSG_WHOLE), TRUE))
    /\ Goto("append")
    /\ UNCHANGED <<src, dest, obs, pureVars>>

\* Lines 153-158: one message of the chunk is appended to the destination.
\* No test of dry_run guards the call. Reading dest_flag_set before line 118
\* has assigned it raises UnboundLocalError.
AppendMsg ==
    /\ sync.pc = "append"
    /\ LET msg == core.msgs[core.mi]
           fixed_path == core.dir_map[core.fi].fixed_path
           flags == ReconcileFlags(msg.flags, core.dest_flag_set)
           stored == [key |-> msg.key, size |-> msg.size, flags |-> flags,
                      date |-> msg.date]
       IN IF ~core.dest_flag_bound
          THEN /\ sync' = Raised("error")
               /\ UNCHANGED <<core, dest, calls>>
          ELSE IF ~HasFolder(dest, fixed_path)
          THEN /\ calls' = Append(calls, Call("dest", "append",
                                  [path |-> fixed_path, msg |-> stored], FALSE))
               /\ sync' = Raised("error")
               /\ UNCHANGED <<core, dest>>
          ELSE /\ calls' = Append(calls, Call("dest", "append",
                                  [path |-> fixed_path, msg |-> stored], TRUE))
               /\ dest' = WithMessage(dest, fixed_path, stored)
               /\ IF core.mi < Len(core.msgs)
                  THEN /\ core' = [core EXCEPT !.mi = @ + 1]
                       /\ UNCHANGED sync
                  ELSE IF core.ci < Len(core.chunks)
                  THEN /\ core' = [core EXCEPT !.ci = @ + 1]
                       /\ Goto("fetch_chunk")
                  ELSE NextFolder(core)
    /\ UNCHANGED <<src, obs, pureVars>>

\* Line 178: the with block of dest is left, on return or on an exception.
ExitDest ==
    /\ sync.pc = "exit_dest"
    /\ dest' = [dest EXCEPT !.conn = "closed"]
    /\ calls' = Append(calls, Call("dest", "logout", <<>>, TRUE))
    /\ Goto("exit_src")
    /\ UNCHANGED <<core, src, obs, pureVars>>

\* Line 173: the with block of src is left, on return or on an exception.
ExitSrc ==
    /\ sync.pc = "exit_src"
    /\ src' = [src EXCEPT !.conn = "closed"]
    /\ calls' = Append(calls, Call("src", "logout", <<>>, TRUE))
    /\ Goto("returned")
    /\ UNCHANGED <<core, dest, obs, pureVars>>

Run ==
    \/ ConnectSrc \/ LoginSrc \/ ConnectDest \/ LoginDest
    \/ ListSrc \/ ListDest \/ CreateFolder
    \/ SelectDest \/ SearchDest \/ FetchDestHeaders
    \/ SelectSrc \/ SearchSrc \/ FetchSrcHeaders
    \/ FetchChunk \/ AppendMsg
    \/ ExitDest \/ ExitSrc

Init == InitMessages \/ InitFolders \/ InitBatches

Next == Run

Spec == Init /\ [][Next]_vars

---------------------------------------------------------------------------
(* Failures and interrupts. *)

\* The protocol call imap_sync is about to issue at pc.
PendingCall(pc) ==
    CASE pc = "connect_src" -> [srv |-> "src", op |-> "connect"]
      [] pc = "login_src" -> [srv |-> "src", op |-> "login"]
      [] pc = "connect_dest" -> [srv |-> "dest", op |-> "connect"]
      [] pc = "login_dest" -> [srv |-> "dest", op |-> "login"]
      [] pc = "list_src" -> [srv |-> "src", op |-> "list_folders"]
      [] pc = "list_dest" -> [srv |-> "dest", op |-> "list_folders"]
      [] pc = "create" -> [srv |-> "dest", op |-> "create_folder"]
      [] pc = "select_dest" -> [srv |-> "dest", op |-> "select_folder"]
      [] pc = "search_dest" -> [srv |-> "dest", op |-> "search"]
      [] pc = "fetch_dest" -> [srv |-> "dest", op |-> "fetch"]
      [] pc = "select_src" -> [srv |-> "src", op |-> "select_folder"]
      [] pc = "search_src" -> [srv |-> "src", op |-> "search"]
      [] pc \in {"fetch_src", "fetch_chunk"} -> [srv |-> "src", op |-> "fetch"]
      [] pc = "append" -> [srv |-> "dest", op |-> "append"]

CallPcs ==
    {"connect_src", "login_src", "connect_dest", "login_dest", "list_src",
     "list_dest", "create", "select_dest", "search_dest", "fetch_dest",
     "select_src", "search_src", "fetch_src", "fetch_chunk", "append"}

\* The call about to be issued fails (the connection drops, the server
\* answers NO, the login is refused): the client raises, and nothing of the
\* call has taken effect.
Fail ==
    /\ sync.pc \in CallPcs
    /\ calls' = Append(calls, Call(PendingCall(sync.pc).srv, PendingCall(sync.pc).op,
                                   <<>>, FALSE))
    /\ sync' = Raised("error")
    /\ UNCHANGED <<core, src, dest, obs, pureVars>>

\* The user interrupts: KeyboardInterrupt is raised between two calls, also
\* while the with blocks are being left.
Interrupt ==
    /\ sync.pc # "returned"
    /\ sync.exc = "none"
    /\ sync' = Raised("KeyboardInterrupt")
    /\ UNCHANGED <<core, src, dest, calls, obs, pureVars>>

InitFault == InitFolders /\ sync.folder_filter = NoFilter

NextFault == Run \/ Fail \/ Interrupt

\* Runs in which calls may fail and the user may interrupt.
SpecFault == InitFault /\ [][NextFault]_vars

\* A dry run has returned; imap_sync is called again with dry_run false, the
\* two servers being as they were when the dry run started.
Rerun ==
    /\ sync.pc = "returned"
    /\ sync.dry_run
    /\ ~obs.first.ran
    /\ sync' = SyncStart(FALSE, sync.folder_filter)
    /\ core' = CoreStart
    /\ src' = [src EXCEPT !.conn = "none", !.selected = <<>>]
    /\ dest' = obs.dest0
    /\ calls' = <<>>
    /\ obs' = [ObsStart(obs.dest0) EXCEPT
                  !.first = [ran |-> TRUE, exc |-> sync.exc, plans |-> obs.plans]]
    /\ UNCHANGED pureVars

InitPair == Init /\ sync.dry_run

NextPair == Run \/ Rerun

\* A dry run followed by a real run from the same server states.
SpecPair == InitPair /\ [][NextPair]_vars

\* A run with dry_run false has returned without an exception; imap_sync is
\* called again with the same arguments, the two servers being as that run
\* left them. The observer keeps the destination as the first run found it.
RunAgain ==
    /\ sync.pc = "returned"
    /\ sync.exc = "none"
    /\ ~sync.dry_run
    /\ ~obs.first.ran
    /\ sync' = SyncStart(FALSE, sync.folder_filter)
    /\ core' = CoreStart
    /\ src' = [src EXCEPT !.conn = "none", !.selected = <<>>]
    /\ dest' = [dest EXCEPT !.conn = "none", !.selected = <<>>]
    /\ calls' = <<>>
    /\ obs' = [ObsStart(dest') EXCEPT
                  !.first = [ran |-> TRUE, exc |-> sync.exc, plans |-> obs.plans,
                             dest0 |-> obs.dest0]]
    /\ UNCHANGED pureVars

InitTwice == Init /\ ~sync.dry_run

NextTwice == Run \/ RunAgain

\* A run with dry_run false, followed when it completes by a second run with
\* the same configuration on the servers as it left them.
SpecTwice == InitTwice /\ [][NextTwice]_vars

---------------------------------------------------------------------------
(* Properties of a run. *)

CallsOf(srv, ops) ==
    {k \in 1..Len(calls) : calls[k].srv = srv /\ calls[k].op \in ops}

\* The paths the destination listed when the run started.
ListedAtStart == {obs.dest0.folders[k].path : k \in 1..Len(obs.dest0.folders)}

\* C1: dry-run issues no mutation. At every point of a run with dry_run true,
\* no create_folder and no append call has been issued to either server.
C1_DryRunNoMutation ==
    sync.dry_run =>
        /\ CallsOf("dest", {"create_folder", "append"}) = {}
        /\ CallsOf("src", {"create_folder", "append"}) = {}

\* C2: in a dry run no select_folder is issued on the destination for a path
\* its listing did not have, the destination key set of such a folder is
\* empty, and the run does not fail.
C2_DryRunSkipsMissing ==
    sync.dry_run =>
        /\ \A k \in CallsOf("dest", {"select_folder"}) : calls[k].arg \in ListedAtStart
        /\ \A j \in 1..Len(obs.plans) :
              obs.plans[j].fixed_path \notin ListedAtStart => obs.plans[j].seen = <<>>
        /\ sync.exc = "none"

\* What a run computed for each folder: the transfer set and the byte count.
Transfers(plans) ==
    [j \in 1..Len(plans) |->
        [path |-> plans[j].path,
         ids |-> [k \in 1..Len(plans[j].move_messages) |-> plans[j].move_messages[k].id],
         data_total |-> plans[j].data_total]]

\* C3: dry-run equivalence. When the real run from the same server states
\* and configuration has completed, the dry run before it completed too and
\* computed the same transfer set and byte count for every folder.
C3_DryRunEquivalence ==
    (sync.pc = "returned" /\ obs.first.ran /\ sync.exc = "none") =>
        /\ obs.first.exc = "none"
        /\ Transfers(obs.first.plans) = Transfers(obs.plans)

LiveKeys(mail) == {mail[k].key : k \in {i \in 1..Len(mail) : ~IsDeleted(mail[i])}}

\* The identifiers of the non-deleted messages of mail whose key is not a key
\* of a non-deleted message of there, ascending.
ToTransfer(mail, there) ==
    LET Wanted(k) == ~IsDeleted(mail[k]) /\ mail[k].key \notin LiveKeys(there)
    IN SelectSeq([k \in 1..Len(mail) |-> k], Wanted)

\* C4: deduplication result. For every folder whose transfer set has been
\* computed, it is the non-deleted source messages whose key is not the key
\* of a non-deleted message the destination folder held when it was selected,
\* and data_total is the sum of their sizes; and every message the folder has
\* received since then has a key that no non-deleted message of it had then,
\* and is one of the transfer set.
C4_Deduplication ==
    \A j \in 1..Len(obs.plans) :
        LET e == obs.plans[j]
            mail == src.mail[e.path]
            ids == ToTransfer(mail, e.seen)
            now == dest.mail[e.fixed_path]
        IN /\ [k \in 1..Len(e.move_messages) |-> e.move_messages[k].id] = ids
           /\ e.data_total = SumSeq([k \in 1..Len(ids) |-> mail[ids[k]].size])
           /\ \A k \in 1..Len(e.move_messages) :
                 /\ e.move_messages[k].key = mail[ids[k]].key
                 /\ e.move_messages[k].size = mail[ids[k]].size
           /\ HasFolder(dest, e.fixed_path) =>
                 \A k \in (Len(e.seen) + 1)..Len(now) :
                    /\ now[k].key \notin LiveKeys(e.seen)
                    /\ j = Len(obs.plans) =>
                          \E i \in 1..Len(ids) :
                             /\ now[k].key = mail[ids[i]].key
                             /\ ~IsDeleted(mail[ids[i]])

\* A run has returned after a folder in which one message was moved, one was
\* left because its key was at the destination, and one was deleted.
C4_Witness ==
    /\ sync.pc = "returned"
    /\ sync.exc = "none"
    /\ \E j \in 1..Len(obs.plans) :
          LET e == obs.plans[j]
              mail == src.mail[e.path]
          IN /\ Len(e.move_messages) = 1
             /\ e.data_total = 2
             /\ \E k \in 1..Len(mail) : IsDeleted(mail[k])
             /\ \E k \in 1..Len(mail) :
                   ~IsDeleted(mail[k]) /\ mail[k].key \in LiveKeys(e.seen)
             /\ Len(dest.mail[e.fixed_path]) = Len(e.seen) + 1

\* C9: flag reconciliation. Every append issued carries the flags of the
\* source message being moved that are in the FLAGS the destination reports
\* for the folder appended to, in the source's order, and the folder appended
\* to is the mapped path of the source folder the message is in.
C9_FlagReconciliation ==
    [][(Len(calls') = Len(calls) + 1 /\ calls'[Len(calls')].op = "append"
            /\ calls'[Len(calls')].ok)
       => LET c == calls'[Len(calls')]
              m == src.mail[src.selected][core.chunks[core.ci][core.mi]]
              Reported(f) == f \in dest.flagsOf[c.arg.path]
          IN /\ c.srv = "dest"
             /\ c.arg.msg.flags = SelectSeq(m.flags, Reported)
             /\ \A k \in 1..Len(c.arg.msg.flags) : Reported(c.arg.msg.flags[k])
             /\ c.arg.msg.key = m.key]_vars

\* A message with the flags \Seen, $Label, \Answered has been appended with
\* \Seen and \Answered to a folder that does not report $Label.
C9_Witness ==
    /\ calls # <<>>
    /\ calls[Len(calls)].op = "append"
    /\ calls[Len(calls)].ok
    /\ calls[Len(calls)].arg.msg.flags = <<"\\Seen", "\\Answered">>
    /\ "$Label" \notin dest.flagsOf[calls[Len(calls)].arg.path]
    /\ core.msgs[core.mi].flags = <<"\\Seen", "$Label", "\\Answered">>

\* C10: connection cleanup. When imap_sync has returned or raised, neither
\* connection is open; the destination connection is opened only when the
\* source connection is open and logged in, and the source connection is
\* closed only when the destination connection is closed or was never opened.
C10_ConnectionCleanup ==
    /\ sync.pc = "returned" =>
          /\ src.conn \in {"none", "closed"}
          /\ dest.conn \in {"none", "closed"}
    /\ dest.conn \in {"open", "auth"} => src.conn = "auth"
    /\ dest.conn = "closed" => src.conn \in {"auth", "closed"}
    /\ src.conn = "closed" => dest.conn \in {"none", "closed"}

\* imap_sync has raised KeyboardInterrupt after an append, and both
\* connections are closed.
C10_Witness ==
    /\ sync.pc = "returned"
    /\ sync.exc = "KeyboardInterrupt"
    /\ CallsOf("dest", {"append"}) # {}
    /\ src.conn = "closed"
    /\ dest.conn = "closed"

\* The calls that were refused or that dropped the connection.
FailedCalls == {k \in 1..Len(calls) : ~calls[k].ok}

\* C11: failure aborts the run without retry. Once a protocol call has
\* failed, every call issued after it is the logout of a with block being
\* left (so the failed call is not issued again and no folder or chunk is
\* processed any further), imap_sync is on its way out with the exception,
\* and when it has ended the exception has reached its caller.
C11_FailureAborts ==
    \A k \in FailedCalls :
        /\ \A j \in (k + 1)..Len(calls) : calls[j].op = "logout" /\ calls[j].ok
        /\ sync.pc \in {"exit_dest", "exit_src", "returned"}
        /\ sync.exc = "error"

\* An append has failed after the first folder was copied and while a second
\* was under way; imap_sync has raised, and the calls after the failed one are
\* the two logouts.
C11_Witness ==
    /\ sync.pc = "returned"
    /\ sync.exc = "error"
    /\ \E k \in FailedCalls :
          /\ calls[k].op = "append"
          /\ Len(calls) = k + 2
          /\ \E j \in 1..(k - 1) : calls[j].op = "append" /\ calls[j].ok
    /\ core.fi = 2
    /\ Len(core.dir_map) = 2

\* The positions in the log, ascending, of the calls that satisfy Test.
CallSeq(Test(_)) == SelectSeq([k \in 1..Len(calls) |-> k], Test)

\* The source select_folder calls: one per folder the run has entered.
SrcSelects ==
    LET IsSel(k) == calls[k].srv = "src" /\ calls[k].op = "select_folder" /\ calls[k].ok
    IN CallSeq(IsSel)

\* The source folders processed so far, in the order of processing.
Processed == [j \in 1..Len(SrcSelects) |-> calls[SrcSelects[j]].arg]

\* A folder name passes the run's filter (decided as C16 states it).
PassesFilter(name) ==
    LET pats == sync.folder_filter.patterns
        lm == LastMatching(pats, name)
    IN \/ ~sync.folder_filter.given
       \/ IF lm = 0 THEN pats = <<>> \/ pats[1].dir = "-" ELSE pats[lm].dir = "+"

PassingPaths ==
    {src.folders[k].path : k \in {i \in 1..Len(src.folders) :
                                      PassesFilter(src.folders[i].path)}}

\* The log positions that belong to the j-th folder processed: from its
\* source select_folder to the next one, or to the end of the log.
FolderSpan(j) ==
    LET sel == SrcSelects
    IN sel[j]..(IF j < Len(sel) THEN sel[j + 1] - 1 ELSE Len(calls))

\* The mark that stands for an append among identifier lists (identifiers
\* are positive).
Appended == <<0>>

\* The whole-message fetches and the appends of the j-th folder, in order:
\* a fetch is shown by its identifier list, an append by Appended.
Transferred(j) ==
    LET span == FolderSpan(j)
        IsMove(k) ==
            /\ k \in span
            /\ calls[k].ok
            /\ \/ calls[k].op = "append"
               \/ calls[k].op = "fetch" /\ calls[k].arg.data = MSG_WHOLE
        moves == CallSeq(IsMove)
    IN [i \in 1..Len(moves) |->
            IF calls[moves[i]].op = "append" THEN Appended ELSE calls[moves[i]].arg.ids]

\* What the plan of a folder prescribes: for each chunk the planner yields,
\* in its order, the fetch of the chunk and then one append per message.
RECURSIVE Prescribed(_)
Prescribed(chunks) ==
    IF chunks = <<>> THEN <<>>
    ELSE <<Head(chunks)>> \o [i \in 1..Len(Head(chunks)) |-> Appended]
            \o Prescribed(Tail(chunks))

PlanOf(e) ==
    _chunk_messages([k \in 1..Len(e.move_messages) |->
                        [id |-> e.move_messages[k].id, size |-> e.move_messages[k].size]],
                    CHUNK_MAX_SIZE)

IsPrefix(s, t) == Len(s) <= Len(t) /\ s = SubSeq(t, 1, Len(s))

\* The run has ended without an exception.
Completed == sync.pc = "returned" /\ sync.exc = "none"

\* C12: processing order. The folders processed so far are folders that pass
\* the filter, each once, in ascending order of source path, with no passing
\* folder of a smaller path left out; a completed run has processed them
\* all. Within each folder the whole-message fetches and the appends issued
\* so far are the beginning of: chunk 1 fetched, its messages appended, chunk
\* 2 fetched, ..., the chunks being those the planner yields, in its order;
\* a folder the run has left has had all of them.
C12_ProcessingOrder ==
    LET processed == Processed
        passing == PassingPaths
    IN /\ \A j \in 1..Len(processed) :
             /\ processed[j] \in passing
             /\ j > 1 => StrLess(processed[j - 1], processed[j])
             /\ \A q \in passing :
                   StrLess(q, processed[j]) => \E i \in 1..(j - 1) : processed[i] = q
       /\ Completed => Range(processed) = passing
       /\ Len(obs.plans) \in {Len(processed), Len(processed) - 1}
       /\ \A j \in 1..Len(processed) :
             LET transferred == Transferred(j)
             IN IF j <= Len(obs.plans)
                THEN LET prescribed == Prescribed(PlanOf(obs.plans[j]))
                     IN /\ obs.plans[j].path = processed[j]
                        /\ IsPrefix(transferred, prescribed)
                        /\ (j < Len(processed) \/ Completed) =>
                              transferred = prescribed
                ELSE transferred = <<>>

\* A completed run on a source that listed two passing folders in descending
\* order: they were processed in ascending order, and a message was moved
\* from each.
C12_Witness ==
    /\ Completed
    /\ sync.folder_filter.given
    /\ Len(src.folders) = 2
    /\ StrLess(src.folders[2].path, src.folders[1].path)
    /\ Processed = <<src.folders[2].path, src.folders[1].path>>
    /\ Transferred(1) = << <<1>>, Appended >>
    /\ Transferred(2) = << <<1>>, Appended >>

\* The same for chunks: a completed run that moved a folder's three messages
\* in two chunks.
C12_ChunksReached ==
    /\ Completed
    /\ Len(Processed) = 1
    /\ Transferred(1) = << <<1, 2>>, Appended, Appended, <<3>>, Appended >>

\* The phase a logged call belongs to: 1-4 connecting, 5-6 listing, 7 folder
\* creation, 8 per-folder sync, 9 leaving the with blocks.
PhaseOf(c) ==
    CASE c.op = "connect" -> IF c.srv = "src" THEN 1 ELSE 3
      [] c.op = "login" -> IF c.srv = "src" THEN 2 ELSE 4
      [] c.op = "list_folders" -> IF c.srv = "src" THEN 5 ELSE 6
      [] c.op = "create_folder" -> 7
      [] c.op = "logout" -> 9
      [] OTHER -> 8

\* The step of the per-folder sync a logged call of phase 8 belongs to:
\* 1-3 the destination's select, search and header fetches, 4-6 the
\* source's, 7 the transfer (whole-message fetch, append).
StepOf(c) ==
    CASE c.op = "select_folder" -> IF c.srv = "dest" THEN 1 ELSE 4
      [] c.op = "search" -> IF c.srv = "dest" THEN 2 ELSE 5
      [] c.op = "append" -> 7
      [] c.op = "fetch" ->
            IF c.srv = "dest" THEN 3
            ELSE IF c.arg.data = MSG_ID_HEADERS_AND_SIZE THEN 6 ELSE 7

\* Step b may follow step a directly within the per-folder sync: the steps
\* of one folder in order (header fetches and transfers repeat, header
\* fetches and transfers of an empty list are absent), then the next
\* folder's first step.
MayFollow(a, b) ==
    \/ a = 1 /\ b = 2
    \/ a \in {2, 3} /\ b \in {3, 4}
    \/ a = 4 /\ b = 5
    \/ a = 5 /\ b \in {6, 1}
    \/ a = 6 /\ b \in {6, 7, 1}
    \/ a = 7 /\ b \in {7, 1}

\* C14: orchestrator phase order. The first six calls of a run are source
\* connect, source login, destination connect, destination login, source
\* list_folders, destination list_folders, each once; the phases never go
\* back, so every create_folder precedes every per-folder call; the
\* per-folder calls start with a destination select_folder and follow each
\* other as MayFollow allows: destination select, search, header fetches,
\* then source select, search, header fetches, then whole-message fetches
\* and appends, then the next folder.
C14_PhaseOrder ==
    /\ \A k \in 1..Len(calls) :
          /\ k <= 6 => PhaseOf(calls[k]) = k
          /\ k > 6 => PhaseOf(calls[k]) >= 7
          /\ k > 1 => PhaseOf(calls[k - 1]) <= PhaseOf(calls[k])
          /\ (PhaseOf(calls[k]) = 8 /\ calls[k].ok) =>
                IF PhaseOf(calls[k - 1]) = 8
                THEN MayFollow(StepOf(calls[k - 1]), StepOf(calls[k]))
                ELSE StepOf(calls[k]) = 1
          /\ (PhaseOf(calls[k]) = 8 /\ ~calls[k].ok) =>
                calls[k].op \in {"select_folder", "append"}

\* A completed run that created a folder, fetched headers on both servers
\* and appended a message.
C14_Witness ==
    /\ Completed
    /\ \E k \in CallsOf("dest", {"create_folder"}) : calls[k].ok
    /\ CallsOf("dest", {"fetch"}) # {}
    /\ \E k \in CallsOf("src", {"fetch"}) : calls[k].arg.data = MSG_ID_HEADERS_AND_SIZE
    /\ \E k \in CallsOf("dest", {"append"}) : calls[k].ok
    /\ Len(SrcSelects) = 2

\* The successful appends of the j-th folder processed, in order.
AppendsOf(j) ==
    LET span == FolderSpan(j)
        IsApp(k) == k \in span /\ calls[k].op = "append" /\ calls[k].ok
        apps == CallSeq(IsApp)
    IN [i \in 1..Len(apps) |-> calls[apps[i]].arg]

\* The path the mapper gives a source path in this run.
MappedPath(path) == fix_path(path, src.sep, dest.sep, sync.replace_sep)

\* The number of successful appends to path in the whole log.
AppendCount(path) ==
    Cardinality({k \in CallsOf("dest", {"append"}) :
                    calls[k].ok /\ calls[k].arg.path = path})

\* C15: complete transfer. In a run with dry_run false, every append issued
\* so far goes to the mapped path of the passing source folder being
\* processed and carries the content and internal date of the next message
\* of that folder's transfer set (the non-deleted source messages whose key
\* no non-deleted message of the destination folder had when it was
\* selected), each message at most once; when the run has completed, every
\* passing folder was processed and had every message of its transfer set
\* appended exactly once, and the destination holds what it held before
\* plus the appended messages.
C15_CompleteTransfer ==
    ~sync.dry_run =>
        /\ \A j \in 1..Len(Processed) :
              LET path == Processed[j]
                  mail == src.mail[path]
                  apps == AppendsOf(j)
              IN IF j > Len(obs.plans) THEN apps = <<>>
                 ELSE LET ids == ToTransfer(mail, obs.plans[j].seen)
                      IN /\ Len(apps) <= Len(ids)
                         /\ \A i \in 1..Len(apps) :
                               /\ apps[i].path = MappedPath(path)
                               /\ path \in PassingPaths
                               /\ apps[i].msg.key = mail[ids[i]].key
                               /\ apps[i].msg.date = mail[ids[i]].date
                         /\ (j < Len(Processed) \/ Completed) => Len(apps) = Len(ids)
        /\ Completed =>
              /\ Range(Processed) = PassingPaths
              /\ \A fp \in DOMAIN dest.mail :
                    Len(dest.mail[fp]) =
                        (IF HasFolder(obs.dest0, fp) THEN Len(obs.dest0.mail[fp]) ELSE 0)
                            + AppendCount(fp)
              /\ \A fp \in DOMAIN dest.mail :
                    AppendCount(fp) > 0 => \E q \in PassingPaths : fp = MappedPath(q)

\* A completed run with dry_run false moved two of a folder's three
\* non-deleted messages and left the third, whose key the destination had.
C15_Witness ==
    /\ Completed
    /\ ~sync.dry_run
    /\ Len(Processed) = 1
    /\ Len(Search([src EXCEPT !.selected = Processed[1]])) = 3
    /\ Len(AppendsOf(1)) = 2
    /\ Len(obs.plans[1].seen) = 1
    /\ Len(dest.mail[MappedPath(Processed[1])]) = 3

\* The position in the log of the last search on srv, 0 when there is none.
LastSearch(srv) ==
    LET hits == CallsOf(srv, {"search"})
    IN IF hits = {} THEN 0 ELSE CHOOSE k \in hits : \A h \in hits : h <= k

\* The identifier lists of the header fetches issued on srv since its last
\* search, in order.
HeaderBatches(srv) ==
    LET last == LastSearch(srv)
        IsHdr(k) ==
            /\ k > last
            /\ calls[k].srv = srv /\ calls[k].op = "fetch" /\ calls[k].ok
            /\ calls[k].arg.data \in {MSG_ID_HEADERS, MSG_ID_HEADERS_AND_SIZE}
        hdrs == CallSeq(IsHdr)
    IN IF last = 0 THEN <<>>
       ELSE [i \in 1..Len(hdrs) |-> calls[hdrs[i]].arg.ids]

\* The batches are consecutive slices of list, each of 1 to MSG_CHUNK_SIZE
\* identifiers, that cover a beginning of it.
SlicesOf(batches, list) ==
    /\ \A b \in 1..Len(batches) : Len(batches[b]) \in 1..MSG_CHUNK_SIZE
    /\ IsPrefix(Flatten(batches), list)

\* C17: header-fetch batching. For the folder being processed, on either
\* server: the list searched is the folder's non-deleted messages; the
\* header fetches issued since the search are consecutive slices of it, each
\* with at least one and at most MSG_CHUNK_SIZE identifiers (so none for an
\* empty list, and no identifier twice); when the run has gone on to the
\* next step (the source's select_folder, the transfer plan) the slices
\* cover the whole list.
C17_HeaderBatching ==
    LET last_dest == LastSearch("dest")
        last_src == LastSearch("src")
        dest_batches == HeaderBatches("dest")
        src_batches == HeaderBatches("src")
    IN /\ last_dest > 0 =>
             /\ SlicesOf(dest_batches, core.dest_messages)
             /\ sync.pc \in {"fetch_dest", "select_src"} =>
                   core.dest_messages = Search(dest)
             /\ (\E k \in CallsOf("src", {"select_folder"}) : k > last_dest)
                   => Flatten(dest_batches) = core.dest_messages
       /\ last_src > 0 =>
             /\ SlicesOf(src_batches, core.src_messages)
             /\ core.src_messages = Search(src)
             /\ Len(obs.plans) = Len(Processed)
                   => Flatten(src_batches) = core.src_messages

\* Both servers' folders held MSG_CHUNK_SIZE + 1 non-deleted messages: the
\* headers were fetched in a full batch and a batch of one on each, and the
\* transfer set has been computed.
C17_Witness ==
    /\ Len(obs.plans) = 1
    /\ Len(core.dest_messages) = MSG_CHUNK_SIZE + 1
    /\ Len(core.src_messages) = MSG_CHUNK_SIZE + 1
    /\ Len(HeaderBatches("dest")) = 2
    /\ Len(HeaderBatches("src")) = 2
    /\ Len(HeaderBatches("dest")[1]) = MSG_CHUNK_SIZE
    /\ Len(HeaderBatches("src")[2]) = 1

\* The number of successful appends to path, in the whole log, of a message
\* with the key.
AppendCountOfKey(path, key) ==
    Cardinality({k \in CallsOf("dest", {"append"}) :
                    calls[k].ok /\ calls[k].arg.path = path /\ calls[k].arg.msg.key = key})

\* C19 as stated: no duplicate keys introduced. In a run with dry_run false,
\* at most one message per key is appended to each destination folder.
C19_NoDuplicateKeys ==
    ~sync.dry_run =>
        \A path \in DOMAIN dest.mail : \A key \in Keys :
            AppendCountOfKey(path, key) <= 1

\* C19 as amended: for every folder processed, no message is appended whose
\* key a non-deleted message of the destination folder had when the folder
\* was selected; of a key the destination folder did not have, as many
\* messages are appended as the source folder has non-deleted messages with
\* that key (never more while the folder is under way, exactly as many once
\* the run has left the folder), so several source messages sharing a key
\* are all transferred.
C19_KeysAbsentFromDestination ==
    \A j \in 1..Len(obs.plans) :
        LET apps == AppendsOf(j)
            mail == src.mail[Processed[j]]
        IN \A key \in Keys :
              LET n == Cardinality({i \in 1..Len(apps) : apps[i].msg.key = key})
                  m == Cardinality({k \in 1..Len(mail) :
                                      ~IsDeleted(mail[k]) /\ mail[k].key = key})
              IN /\ key \in LiveKeys(obs.plans[j].seen) => n = 0
                 /\ n <= m
                 /\ (key \notin LiveKeys(obs.plans[j].seen)
                         /\ (j < Len(Processed) \/ Completed)) => n = m

\* A completed run with dry_run false appended two source messages of one
\* key to a destination folder that had no message of that key.
C19_Witness ==
    /\ Completed
    /\ ~sync.dry_run
    /\ Len(Processed) = 1
    /\ obs.plans[1].seen = <<MessageOf("k2", FALSE)>>
    /\ Len(AppendsOf(1)) = 2
    /\ AppendsOf(1)[1].msg.key = "k1"
    /\ AppendsOf(1)[2].msg.key = "k1"

\* The creation phase is over: the per-folder loop has been entered or left.
CreationOver ==
    /\ sync.exc = "none"
    /\ sync.pc \notin {"connect_src", "login_src", "connect_dest", "login_dest",
                      "list_src", "list_dest", "create"}

\* C20: folder creation is exact. In a run with dry_run false, every
\* create_folder issued is for the mapped path of a source folder that passes
\* the filter and for a path the destination did not list; no two
\* create_folder calls are for the same path; and when the creation phase is
\* over every mapped path of a passing folder exists at the destination.
C20_ExactCreation ==
    ~sync.dry_run =>
        /\ \A k \in CallsOf("dest", {"create_folder"}) :
              /\ \E q \in PassingPaths : calls[k].arg = MappedPath(q)
              /\ calls[k].arg \notin ListedAtStart
              /\ \A h \in CallsOf("dest", {"create_folder"}) :
                    calls[h].arg = calls[k].arg => h = k
        /\ CreationOver => \A q \in PassingPaths : HasFolder(dest, MappedPath(q))

\* C18: sync idempotence. In the second of two runs with dry_run false and
\* the same configuration, started on the servers as the completed first run
\* left them, no create_folder and no append call is issued.
C18_Idempotence ==
    obs.first.ran =>
        /\ CallsOf("dest", {"create_folder", "append"}) = {}
        /\ CallsOf("src", {"create_folder", "append"}) = {}

\* The second run has completed after a first run that created a folder and
\* moved two messages into folders reached through the separator mapping.
C18_Witness ==
    /\ Completed
    /\ obs.first.ran
    /\ Len(obs.first.plans) = 2
    /\ Len(obs.first.plans[1].move_messages) = 1
    /\ Len(obs.first.plans[2].move_messages) = 1
    /\ Len(obs.plans) = 2
    /\ src.sep # dest.sep
    /\ \E q \in DOMAIN dest.mail : ~HasFolder(obs.first.dest0, q)

=============================================================================
